---- MODULE Spec2Model ----
(***************************************************************************)
(* Model of numbapro/cudavec/dispatch.py: the CUDA ufunc / gufunc          *)
(* dispatchers (CudaUFuncDispatcher, CudaGUFuncDispatcher,                 *)
(* CUDAGenerializedUFunc), the launch-geometry planner and the device-side *)
(* tree reduction.                                                         *)
(*                                                                         *)
(* Arrays are strided views (shape, strides in elements, offset) of        *)
(* buffers kept in a heap; a dispatcher call is one action that returns    *)
(* the error it raised, the array it returned, the heap it left and the    *)
(* log of the device operations it issued, in issue order.  reduce() is a  *)
(* step machine over an explicit stack of __reduce frames and a stream of  *)
(* asynchronous device operations.                                         *)
(***************************************************************************)
EXTENDS Integers, Sequences, FiniteSets, TLC

VARIABLES
    disp,       \* the dispatcher object under test (its attributes)
    last,       \* the last completed operation: its inputs and its outcome
    pc,         \* "idle", or the position of reduce()
    rd          \* the state of a running reduce(): frames, gpu_mems, stream, device memory

vars == <<disp, last, pc, rd>>

----------------------------------------------------------------------------
(* Bounds of the model *)

\* hardware MAX_THREADS_PER_BLOCK ranges over 1..MaxHW
MaxHW == 2
\* element_count / thread ceiling given to the planner range over 1..MaxPlan
MaxPlan == 6
\* reduce() is run on arrays of length 0..MaxN
MaxN == 4

----------------------------------------------------------------------------
(* Small helpers *)

Min(a, b) == IF a < b THEN a ELSE b

Range(s) == {s[i] : i \in 1..Len(s)}

RECURSIVE Prod(_)
\* np.prod of a shape tuple
Prod(s) == IF s = <<>> THEN 1 ELSE s[1] * Prod(Tail(s))

\* uninitialised storage (np.empty, cuda.device_array)
Uninit == -1

----------------------------------------------------------------------------
(* Geometry planner *)

\* math.ceil(float(n) / d) for integers n >= 0, d >= 1
CeilDiv(n, d) == IF n % d = 0 THEN n \div d ELSE (n \div d) + 1

\* a planner that rounds the block count down
DetermineDimensionsFloor(n, max_thread) ==
    <<n \div max_thread, Min(max_thread, n)>>

\* CudaUFuncDispatcher._determine_dimensions: (block_count, thread_count)
DetermineDimensions(n, max_thread) ==
    <<CeilDiv(n, max_thread), Min(max_thread, n)>>

----------------------------------------------------------------------------
(* Arrays: strided views of heap buffers *)

\* number of elements along each dimension of the pooled arrays
MaxLen == 2

RECURSIVE CStrides(_)
\* the strides (in elements) of a C-contiguous array of the given shape
CStrides(shape) ==
    IF shape = <<>> THEN <<>>
    ELSE <<Prod(Tail(shape))>> \o CStrides(Tail(shape))

NDim(a) == Len(a.shape)
Size(a) == Prod(a.shape)

\* numpy's C-contiguity: dimensions of extent 1 do not count
IsCContiguous(a) ==
    \/ Size(a) = 0
    \/ \A d \in 1..NDim(a) : a.shape[d] = 1 \/ a.strides[d] = CStrides(a.shape)[d]

RECURSIVE ElemOff(_, _, _)
\* the offset, from the view's first element, of the element whose C-order
\* (logical) index is k
ElemOff(shape, strides, k) ==
    IF shape = <<>> THEN 0
    ELSE LET d == Len(shape)
         IN (k % shape[d]) * strides[d]
            + ElemOff(SubSeq(shape, 1, d - 1), SubSeq(strides, 1, d - 1), k \div shape[d])

\* the elements of view a, in C (logical) order
Read(heap, a) ==
    [k \in 1..Size(a) |-> heap[a.buf][a.off + ElemOff(a.shape, a.strides, k - 1) + 1]]

\* buffer a.buf after the elements data (C order) are stored through view a
Store(heap, a, data) ==
    LET phys(k) == a.off + ElemOff(a.shape, a.strides, k - 1) + 1
        hit(p) == {k \in 1..Min(Size(a), Len(data)) : phys(k) = p}
        last_of(S) == CHOOSE k \in S : \A j \in S : j <= k
    IN [heap EXCEPT ![a.buf] =
           [p \in 1..Len(heap[a.buf]) |->
               IF hit(p) = {} THEN heap[a.buf][p] ELSE data[last_of(hit(p))]]]

\* a new contiguous array holding data, in a new buffer
NewArray(heap, res, dtype, shape, data) ==
    [heap |-> Append(heap, data),
     arr  |-> [res |-> res, dtype |-> dtype, shape |-> shape,
               strides |-> CStrides(shape), buf |-> Len(heap) + 1, off |-> 0]]

\* placeholder where no array is returned
NoArray == [res |-> "none", dtype |-> "none", shape |-> <<>>, strides |-> <<>>,
            buf |-> 0, off |-> 0]

\* devicearray.is_cuda_ndarray
IsCudaNdarray(a) == a.res = "device"

\* ndarray.reshape / DeviceNDArray.reshape of a contiguous array: a view, no copy
Reshape(a, shape) == [a EXCEPT !.shape = shape, !.strides = CStrides(shape)]

\* ndarray.ravel(): a 1-D view when the array is contiguous, else a copy
Ravel(heap, a) ==
    IF IsCContiguous(a)
    THEN [heap |-> heap, arr |-> Reshape(a, <<Size(a)>>)]
    ELSE NewArray(heap, a.res, a.dtype, <<Size(a)>>, Read(heap, a))

----------------------------------------------------------------------------
(* numpy broadcasting *)

\* shape padded on the left with ones to nd dimensions
PadShape(shape, nd) == [d \in 1..(nd - Len(shape)) |-> 1] \o shape

Max(a, b) == IF a > b THEN a ELSE b

\* the common broadcast shape of two shapes: trailing dimensions align and
\* extents of 1 stretch; ok is FALSE when two extents differ and neither is 1
BroadcastShape(s1, s2) ==
    LET nd == Max(Len(s1), Len(s2))
        p1 == PadShape(s1, nd)
        p2 == PadShape(s2, nd)
    IN [ok    |-> \A d \in 1..nd : p1[d] = p2[d] \/ p1[d] = 1 \/ p2[d] = 1,
        shape |-> [d \in 1..nd |-> IF p1[d] = 1 THEN p2[d] ELSE p1[d]]]

\* the read-only view of a stretched to shape: stride 0 along stretched or new
\* dimensions
BroadcastTo(a, shape) ==
    LET nd  == Len(shape)
        lead == nd - NDim(a)
    IN [a EXCEPT
          !.shape = shape,
          !.strides = [d \in 1..nd |->
                          IF d <= lead THEN 0
                          ELSE IF a.shape[d - lead] = 1 /\ shape[d] # 1 THEN 0
                          ELSE a.strides[d - lead]]]

\* np.broadcast_arrays(*args) for two arguments
BroadcastArrays(args) ==
    LET b == BroadcastShape(args[1].shape, args[2].shape)
    IN [ok   |-> b.ok,
        arrs |-> IF b.ok THEN [i \in 1..Len(args) |-> BroadcastTo(args[i], b.shape)]
                 ELSE args]

----------------------------------------------------------------------------
(* The device: transfers, allocation, kernels.  These belong to
   numbapro.cuda / numbapro.cudadrv; dispatch.py only calls them. *)

\* cuda.to_device(x, stream): a device copy of host array x, of the same
\* shape and strides
ToDevice(heap, x) ==
    [heap |-> Append(heap, heap[x.buf]),
     arr  |-> [x EXCEPT !.res = "device", !.buf = Len(heap) + 1]]

\* cuda.device_array(shape, dtype, stream): an uninitialised device array
DeviceArray(heap, shape, dtype) ==
    NewArray(heap, "device", dtype, shape, [k \in 1..Prod(shape) |-> Uninit])

\* cuda.device_array_like(a, stream)
DeviceArrayLike(heap, a) == DeviceArray(heap, a.shape, a.dtype)

\* cuda._auto_device(a): device arrays pass through, host arrays are staged
AutoDevice(heap, a) ==
    IF IsCudaNdarray(a) THEN [heap |-> heap, arr |-> a, conv |-> FALSE]
    ELSE LET t == ToDevice(heap, a) IN [heap |-> t.heap, arr |-> t.arr, conv |-> TRUE]

\* DeviceNDArray.copy_to_host(ary, stream): into ary, which is returned
CopyToHost(heap, dev, ary) == Store(heap, ary, Read(heap, dev))

\* the inner array of a at index l of its leading (loop) axis
RowShape(a) == IF NDim(a) = 0 THEN <<>> ELSE Tail(a.shape)
RowStrides(a) == IF NDim(a) = 0 THEN <<>> ELSE Tail(a.strides)
RowBase(a, l) == a.off + (IF NDim(a) = 0 THEN 0 ELSE l * a.strides[1])
RowView(a, l) ==
    [a EXCEPT !.off = RowBase(a, l), !.shape = RowShape(a), !.strides = RowStrides(a)]

\* thread l stays inside the array
InBounds(a, l) ==
    IF NDim(a) = 0 THEN l = 0 ELSE a.strides[1] = 0 \/ l < a.shape[1]

\* the scalar function a compiled elementwise kernel applies
ApplyOp(op, x, y) ==
    CASE op = "add"   -> x + y
      [] op = "sub"   -> x - y
      [] op = "first" -> IF x # 0 THEN x ELSE y
      [] OTHER        -> x + y

\* the inner shapes suit the kernel
InnerFits(op, ins, out) ==
    IF op = "matmul"
    THEN /\ \A i \in 1..Len(ins) : NDim(ins[i]) = 3
         /\ NDim(out) = 3
         /\ ins[2].shape[2] = ins[1].shape[3]
         /\ RowShape(out) = <<ins[1].shape[2], ins[2].shape[3]>>
    ELSE \A i \in 1..Len(ins) : Prod(RowShape(ins[i])) = Prod(RowShape(out))

RECURSIVE Dot(_, _, _, _, _, _)
\* sum over y of a[x, y] * b[y, z], a of nj columns and b of nk columns
Dot(rows, nj, nk, x, z, y) ==
    IF y = 0 THEN 0
    ELSE rows[1][(x - 1) * nj + y] * rows[2][(y - 1) * nk + z]
         + Dot(rows, nj, nk, x, z, y - 1)

\* what one thread computes from the inner arrays of its inputs
InnerOp(op, ins, rows) ==
    IF op = "matmul"
    THEN [e \in 1..(ins[1].shape[2] * ins[2].shape[3]) |->
             Dot(rows, ins[1].shape[3], ins[2].shape[3],
                 ((e - 1) \div ins[2].shape[3]) + 1, ((e - 1) % ins[2].shape[3]) + 1,
                 ins[1].shape[3])]
    ELSE [e \in 1..Len(rows[1]) |-> ApplyOp(op, rows[1][e], rows[2][e])]

\* thread l can run: it stays inside every array
ThreadOk(op, ins, out, l) ==
    /\ InnerFits(op, ins, out)
    /\ InBounds(out, l)
    /\ \A i \in 1..Len(ins) : InBounds(ins[i], l)

RECURSIVE RunThreads(_, _, _, _, _, _, _)
\* threads l .. covered-1: each reads its inputs from the memory pre the
\* launch found and writes the inner array l of out
RunThreads(op, pre, heap, ins, out, l, covered) ==
    IF l >= covered THEN heap
    ELSE RunThreads(op, pre,
                    IF ThreadOk(op, ins, out, l)
                    THEN Store(heap, RowView(out, l),
                               InnerOp(op, ins,
                                       [i \in 1..Len(ins) |->
                                           Read(pre, RowView(ins[i], l))]))
                    ELSE heap,
                    ins, out, l + 1, covered)

\* kernel[griddim, blockdim, stream](ins..., out, n): thread l < n of the
\* griddim * blockdim threads writes the inner array l of out.  oob tells
\* that a thread left one of the arrays (undefined behaviour; such a thread
\* is taken to write nothing).
Kernel(op, heap, ins, out, n, grid, block) ==
    [heap |-> RunThreads(op, heap, heap, ins, out, 0, Min(n, grid * block)),
     oob  |-> \E l \in 0..(Min(n, grid * block) - 1) : ~ThreadOk(op, ins, out, l)]

----------------------------------------------------------------------------
(* Dispatcher objects and their helper methods *)

\* object attribute access: ok is FALSE where Python raises AttributeError
HasAttr(self, name) == name \in DOMAIN self

\* the outcome of a call
Outcome(err, ret, heap, log, n, geom, oob) ==
    [err |-> err, ret |-> ret, heap |-> heap, log |-> log, n |-> n,
     geom |-> geom, oob |-> oob]

\* an exception raised: nothing is returned
Raise(err, heap, log) == Outcome(err, NoArray, heap, log, 0, <<0, 0>>, FALSE)

\* CudaUFuncDispatcher.max_blocksize (property getter)
MaxBlocksize(self) ==
    IF HasAttr(self, "__max_blocksize") THEN self["__max_blocksize"] ELSE 2^30

\* _apply_autotuning(func, max_threads): env.has_autotune is FALSE when
\* func.autotune raises RuntimeError; env.best is atune.best()
ApplyAutotuning(env, max_threads) ==
    IF ~env.has_autotune THEN [ok |-> TRUE, val |-> max_threads]
    ELSE IF env.best = 0 THEN [ok |-> FALSE, val |-> 0]
    ELSE [ok |-> TRUE, val |-> env.best]

\* the thread ceiling of CudaUFuncDispatcher.__call__
ThreadCeiling(self, env) ==
    LET max_threads == Min(env.hw, MaxBlocksize(self))
    IN IF max_threads = env.hw THEN ApplyAutotuning(env, max_threads)
       ELSE [ok |-> TRUE, val |-> max_threads]

\* a lookup that answers every dtype tuple with some kernel of the table
GetFunctionByDtypeAny(self, dtypes) ==
    [ok |-> TRUE,
     result_dtype |-> self.functions[CHOOSE k \in DOMAIN self.functions : TRUE].retty,
     cuda_func |-> self.functions[CHOOSE k \in DOMAIN self.functions : TRUE].kernel]

\* CudaUFuncDispatcher._get_function_by_dtype
GetFunctionByDtype(self, dtypes) ==
    IF dtypes \in DOMAIN self.functions
    THEN [ok |-> TRUE, result_dtype |-> self.functions[dtypes].retty,
          cuda_func |-> self.functions[dtypes].kernel]
    ELSE [ok |-> FALSE, result_dtype |-> "none", cuda_func |-> [op |-> "none"]]

\* _arguments_requirement: "" when the arguments pass, else the exception.
\* Line 217 formats a two-field message with one value, so a length mismatch
\* surfaces as the TypeError of the % operator.
ArgumentsRequirement(self, args) ==
    IF self.cls = "CudaGUFuncDispatcher" THEN ""
    ELSE LET strided == {i \in 1..Len(args) : args[i].strides[1] # 0}
             first   == CHOOSE i \in strided : \A j \in strided : i <= j
         IN IF \E i \in 1..Len(args) : NDim(args[i]) # 1
            THEN "ValueError: arg is not a 1D array"
            ELSE IF strided = {}
            THEN "IndexError: list index out of range"
            ELSE IF \E i \in strided : args[i].shape[1] # args[first].shape[1]
            THEN "TypeError: not enough arguments for format string"
            ELSE ""

\* _determine_element_count: np.prod of the FIRST array's shape; the gufunc
\* subclass takes the first array's leading extent
DetermineElementCount(self, arrs) ==
    IF self.cls = "CudaGUFuncDispatcher"
    THEN [ok |-> NDim(arrs[1]) > 0,
          n  |-> IF NDim(arrs[1]) > 0 THEN arrs[1].shape[1] ELSE 0]
    ELSE [ok |-> TRUE, n |-> Prod(arrs[1].shape)]

RECURSIVE ZipPairs(_, _)
\* zip(symbols, remain_shape): stops at the shorter
ZipPairs(symbols, remain) ==
    IF symbols = <<>> \/ remain = <<>> THEN <<>>
    ELSE <<<<symbols[1], remain[1]>>>> \o ZipPairs(Tail(symbols), Tail(remain))

RECURSIVE SymbolPairs(_, _)
\* the (symbol, value) pairs in the order the two loops of
\* _determine_output_shape visit them; the first dimension is ignored
SymbolPairs(shapes, symbols) ==
    IF shapes = <<>> \/ symbols = <<>> THEN <<>>
    ELSE ZipPairs(symbols[1], Tail(shapes[1]))
         \o SymbolPairs(Tail(shapes), Tail(symbols))

RECURSIVE Resolve(_, _)
\* shapeholders after the pairs: err names the first conflicting symbol
Resolve(pairs, holders) ==
    IF pairs = <<>> THEN [err |-> "", sym |-> "", holders |-> holders]
    ELSE LET sym == pairs[1][1]
             val == pairs[1][2]
         IN IF sym \in DOMAIN holders /\ holders[sym] # val
            THEN [err |-> "ValueError: dimension mismatch", sym |-> sym,
                  holders |-> holders]
            ELSE Resolve(Tail(pairs), (sym :> val) @@ holders)

\* the symbol resolution of _determine_output_shape, given the two symbol lists
SolveShape(shapes, input_symbols, output_symbols) ==
    LET r == Resolve(SymbolPairs(shapes, input_symbols), <<>>)
    IN IF r.err # "" THEN [err |-> r.err, sym |-> r.sym, shape |-> <<>>]
       ELSE IF \E s \in Range(output_symbols) : s \notin DOMAIN r.holders
       THEN [err |-> "KeyError", sym |-> "", shape |-> <<>>]
       ELSE [err |-> "", sym |-> "",
             shape |-> <<shapes[1][1]>>
                       \o [d \in 1..Len(output_symbols) |-> r.holders[output_symbols[d]]]]

\* _determine_output_shape.  CudaUFuncDispatcher: the first array's shape.
\* CudaGUFuncDispatcher: reads self.input_symbols and self.output_symbols,
\* which __init__ (it sets inputsig and outputsig) never assigns.
DetermineOutputShape(self, shapes) ==
    IF self.cls # "CudaGUFuncDispatcher"
    THEN [err |-> "", sym |-> "", shape |-> shapes[1]]
    ELSE IF ~HasAttr(self, "input_symbols") \/ ~HasAttr(self, "output_symbols")
    THEN [err |-> "AttributeError", sym |-> "", shape |-> <<>>]
    ELSE SolveShape(shapes, self["input_symbols"], self["output_symbols"])

----------------------------------------------------------------------------
(* CudaUFuncDispatcher.__call__ (inherited by CudaGUFuncDispatcher).  The
   method is followed statement by statement: each operator below takes the
   values the statements before it have bound and runs the next ones. *)

RECURSIVE MapArrays(_, _, _)
\* [F(a) for a in args], threading the heap through the calls of F
MapArrays(F(_, _), heap, args) ==
    IF args = <<>> THEN [heap |-> heap, arrs |-> <<>>]
    ELSE LET h == F(heap, args[1])
             t == MapArrays(F, h.heap, Tail(args))
         IN [heap |-> t.heap, arrs |-> <<h.arr>> \o t.arrs]

\* n log entries e
Repeat(e, n) == [i \in 1..n |-> e]

\* tuple(a.dtype for a in arrs)
Dtypes(arrs) == [i \in 1..Len(arrs) |-> arrs[i].dtype]

\* [a.shape for a in arrs]
Shapes(arrs) == [i \in 1..Len(arrs) |-> arrs[i].shape]

\* np.asarray(arg) of an argument that is neither ndarray nor device array:
\* a 0-d host array
AsArray(heap, a) ==
    IF a.res = "scalar" THEN NewArray(heap, "host", a.dtype, <<>>, Read(heap, a))
    ELSE [heap |-> heap, arr |-> a]

\* the zero-stride array of lines 114-115 made from buffer n
ZeroStrided(n) == [heap |-> n.heap, arr |-> [n.arr EXCEPT !.strides = <<0>>]]

\* lines 111-116: a 0-d argument becomes a one-element zero-stride host array
\* (np.ndarray's default dtype)
PromoteScalar(heap, a) ==
    IF a.shape = <<>>
    THEN ZeroStrided(NewArray(heap, "host", "f64", <<1>>, Read(heap, a)))
    ELSE [heap |-> heap, arr |-> a]

\* np.ascontiguousarray
AsContiguous(heap, a) ==
    IF IsCContiguous(a) THEN [heap |-> heap, arr |-> a]
    ELSE NewArray(heap, a.res, a.dtype, a.shape, Read(heap, a))

\* the list a helper returns, with the flag of the exception it may raise
Prepared(ok, m) == [ok |-> ok, heap |-> m.heap, arrs |-> m.arrs]

\* _prepare_inputs
PrepareInputs(self, heap, args) ==
    IF self.cls = "CudaGUFuncDispatcher"
    THEN Prepared(TRUE, MapArrays(AsContiguous, heap, args))
    ELSE Prepared(BroadcastShape(args[1].shape, args[2].shape).ok,
                  [heap |-> heap, arrs |-> BroadcastArrays(args).arrs])

\* one element of _adjust_dimension
AdjustOne(heap, a) ==
    IF NDim(a) > 1 THEN Ravel(heap, a) ELSE [heap |-> heap, arr |-> a]

\* _adjust_dimension
AdjustDimension(self, heap, arrs) ==
    IF self.cls = "CudaGUFuncDispatcher" THEN [heap |-> heap, arrs |-> arrs]
    ELSE MapArrays(AdjustOne, heap, arrs)

\* a freshly allocated host output
Allocated(new, log) == [err |-> "", heap |-> new.heap, arr |-> new.arr, log |-> log]

\* CudaGUFuncDispatcher._allocate_output: np.zeros of the solved shape os
AllocateZeros(heap, arrs, os) ==
    IF os.err # "" THEN [err |-> os.err, heap |-> heap, arr |-> NoArray, log |-> <<>>]
    ELSE Allocated(NewArray(heap, "host", arrs[1].dtype, os.shape,
                            [k \in 1..Prod(os.shape) |-> 0]),
                   <<"np.zeros">>)

\* _allocate_output: np.empty of the first array's shape; the gufunc subclass
\* takes np.zeros of _determine_output_shape
AllocateOutput(self, heap, arrs, result_dtype) ==
    IF self.cls = "CudaGUFuncDispatcher"
    THEN AllocateZeros(heap, arrs, DetermineOutputShape(self, Shapes(arrs)))
    ELSE Allocated(NewArray(heap, "host", result_dtype, arrs[1].shape,
                            [k \in 1..Size(arrs[1]) |-> Uninit]),
                   <<"np.empty">>)

\* the leading extent of an array handed to a kernel without element_count
LeadExtent(a) == IF NDim(a) = 0 THEN 1 ELSE a.shape[1]

\* lines 140-145: the launch, and device_out is returned
DeviceLaunch(device_out, log, n, geom, run) ==
    Outcome("", device_out, run.heap, log \o <<"launch">>, n, geom, run.oob)

\* lines 125-142 once device_out is bound
DeviceOut(look, max_threads, arrs, new, log, n) ==
    DeviceLaunch(new.arr, log, n, DetermineDimensions(n, max_threads),
                 Kernel(look.cuda_func.op, new.heap, arrs, new.arr, n,
                        DetermineDimensions(n, max_threads)[1],
                        DetermineDimensions(n, max_threads)[2]))

\* lines 132-135: no out= was given; os is the output shape
DeviceAllocate(look, max_threads, auto, log, n, os) ==
    IF os.err # "" THEN Raise(os.err, auto.heap, log)
    ELSE DeviceOut(look, max_threads, auto.arrs,
                   DeviceArray(auto.heap, os.shape, look.result_dtype),
                   log \o <<"device_array">>, n)

\* lines 124-139: ec is the element count
DeviceCounted(self, kws, look, max_threads, auto, log, ec) ==
    IF ~ec.ok THEN Raise("IndexError: tuple index out of range", auto.heap, log)
    ELSE IF ~kws.has_out
    THEN DeviceAllocate(look, max_threads, auto, log, ec.n,
                        DetermineOutputShape(self, Shapes(auto.arrs)))
    ELSE IF ~IsCudaNdarray(kws.out)
    THEN Raise("TypeError: output array must be a device array", auto.heap, log)
    ELSE DeviceOut(look, max_threads, auto.arrs,
                   [heap |-> auto.heap, arr |-> kws.out], log, ec.n)

\* lines 120-124: the arguments are checked, then staged by cuda._auto_device
DevicePromoted(self, kws, look, max_threads, prom, req) ==
    IF req # "" THEN Raise(req, prom.heap, <<>>)
    ELSE DeviceCounted(self, kws, look, max_threads,
                       MapArrays(AutoDevice, prom.heap, prom.arrs),
                       Repeat("to_device",
                              Cardinality({i \in 1..Len(prom.arrs) :
                                              ~IsCudaNdarray(prom.arrs[i])})),
                       DetermineElementCount(self,
                                             MapArrays(AutoDevice, prom.heap,
                                                       prom.arrs).arrs))

\* lines 109-145: some argument is a device array
DevicePath(self, heap, args, kws, look, max_threads) ==
    DevicePromoted(self, kws, look, max_threads, MapArrays(PromoteScalar, heap, args),
                   ArgumentsRequirement(self, MapArrays(PromoteScalar, heap, args).arrs))

\* lines 183-185: the result is copied into out, and out.reshape(reshape) is
\* returned
HostCopyBack(out, reshape, device_out, log, n, geom, run) ==
    Outcome("", Reshape(out, reshape), CopyToHost(run.heap, device_out, out),
            log \o <<"launch", "copy_to_host">>, n, geom, run.oob)

\* lines 174-181.  The kernel is launched without element_count here: its
\* threads are bounded by the extent of device_out.
HostLaunch(look, out, reshape, ins, dout, log, n, geom) ==
    HostCopyBack(out, reshape, dout.arr, log \o <<"device_array_like">>, n, geom,
                 Kernel(look.cuda_func.op, dout.heap, ins, dout.arr,
                        LeadExtent(dout.arr), geom[1], geom[2]))

\* lines 173-174: the inputs are staged and device_out is allocated
HostStaged(look, out, reshape, dins, log, n, geom) ==
    HostLaunch(look, out, reshape, dins.arrs, DeviceArrayLike(dins.heap, out),
               log \o Repeat("to_device", Len(dins.arrs)), n, geom)

\* lines 164-173: adji is the adjusted inputs
HostAdjusted(look, max_threads, out, reshape, adji, log, n) ==
    HostStaged(look, out, reshape, MapArrays(ToDevice, adji.heap, adji.arrs), log, n,
               DetermineDimensions(n, max_threads))

\* lines 163-164: adjo is the adjusted [out]
HostAdjustOut(self, look, max_threads, arrs, reshape, adjo, log, n) ==
    HostAdjusted(look, max_threads, adjo.arrs[1], reshape,
                 AdjustDimension(self, adjo.heap, arrs), log, n)

\* lines 162-163 once out is bound
HostOut(self, look, max_threads, heap, arrs, out, log, n) ==
    HostAdjustOut(self, look, max_threads, arrs, out.shape,
                  AdjustDimension(self, heap, <<out>>), log, n)

\* line 152: al is what _allocate_output returned
HostAllocated(self, look, max_threads, prep, al, n) ==
    IF al.err # "" THEN Raise(al.err, prep.heap, <<>>)
    ELSE HostOut(self, look, max_threads, al.heap, prep.arrs, al.arr, al.log, n)

\* lines 149-158: ec is the element count
HostCounted(self, kws, look, max_threads, prep, ec) ==
    IF ~ec.ok THEN Raise("IndexError: tuple index out of range", prep.heap, <<>>)
    ELSE IF ~kws.has_out
    THEN HostAllocated(self, look, max_threads, prep,
                       AllocateOutput(self, prep.heap, prep.arrs, look.result_dtype),
                       ec.n)
    ELSE IF IsCudaNdarray(kws.out)
    THEN Raise("TypeError: output array must not be a device array", prep.heap, <<>>)
    ELSE IF NDim(kws.out) = 0 \/ NDim(prep.arrs[1]) = 0
    THEN Raise("IndexError: tuple index out of range", prep.heap, <<>>)
    ELSE IF kws.out.shape[1] < prep.arrs[1].shape[1]
    THEN Raise("ValueError: insufficient storage for output array", prep.heap, <<>>)
    ELSE HostOut(self, look, max_threads, prep.heap, prep.arrs, kws.out, <<>>, ec.n)

\* lines 148-149: prep is what _prepare_inputs returned
HostPrepared(self, heap, kws, look, max_threads, prep) ==
    IF ~prep.ok
    THEN Raise("ValueError: shape mismatch: objects cannot be broadcast", heap, <<>>)
    ELSE HostCounted(self, kws, look, max_threads, prep,
                     DetermineElementCount(self, prep.arrs))

\* lines 147-185: every argument is a host array
HostPath(self, heap, args, kws, look, max_threads) ==
    HostPrepared(self, heap, kws, look, max_threads, PrepareInputs(self, heap, args))

\* lines 100-109: the kernel is looked up, the thread ceiling is settled and
\* the call takes the device or the host path
CallSelected(self, kws, has_device_array_arg, conv, look, mt) ==
    IF ~look.ok
    THEN Raise("TypeError: Input dtypes not supported by ufunc", conv.heap, <<>>)
    ELSE IF ~mt.ok
    THEN Raise("Exception: insufficient resources to run kernel", conv.heap, <<>>)
    ELSE IF has_device_array_arg
    THEN DevicePath(self, conv.heap, conv.arrs, kws, look, mt.val)
    ELSE HostPath(self, conv.heap, conv.arrs, kws, look, mt.val)

\* lines 85-107: conv is the arguments after np.asarray
CallConverted(self, env, kws, has_device_array_arg, conv) ==
    CallSelected(self, kws, has_device_array_arg, conv,
                 GetFunctionByDtype(self, Dtypes(conv.arrs)), ThreadCeiling(self, env))

\* CudaUFuncDispatcher.__call__(*args, **kws)
UFuncCall(self, env, heap, args, kws) ==
    IF kws.unknown THEN Raise("AssertionError: Unknown keyword args", heap, <<>>)
    ELSE CallConverted(self, env, kws, \E i \in 1..Len(args) : IsCudaNdarray(args[i]),
                       MapArrays(AsArray, heap, args))

----------------------------------------------------------------------------
(* CUDAGenerializedUFunc *)

\* engine.schedule(input_shapes) of the external shape-inference engine, for
\* an engine whose inner shapes are all scalar, "(),()->()": every dimension
\* is a loop dimension and the loop shape is the broadcast of the inputs'
Schedule(engine, input_shapes) ==
    [ok |-> BroadcastShape(input_shapes[1], input_shapes[2]).ok,
     output_shapes |-> <<BroadcastShape(input_shapes[1], input_shapes[2]).shape>>,
     loopdims |-> BroadcastShape(input_shapes[1], input_shapes[2]).shape,
     loopn |-> Prod(BroadcastShape(input_shapes[1], input_shapes[2]).shape),
     ishapes |-> [i \in 1..Len(input_shapes) |-> <<>>],
     oshapes |-> <<<<>>>>]

\* np.array(a): a fresh contiguous host copy
NpArray(heap, a) == NewArray(heap, "host", a.dtype, a.shape, Read(heap, a))

\* lines 386-389 of _launch_kernel: ntid is what _apply_autotuning returns
LaunchThreads(self, env) == ApplyAutotuning(env, Min(env.hw, self.max_blocksize))

\* lines 390-393 of _launch_kernel: ncta
LaunchBlocks(nelem, ntid) ==
    IF (nelem \div ntid) * ntid < nelem THEN (nelem \div ntid) + 1 ELSE nelem \div ntid

\* line 395: kernel[ncta, ntid, stream](*args); the last of args is the
\* output.  A host array handed to the kernel is outside what dispatch.py
\* defines: oob is set and nothing is written.
LaunchConfigured(heap, kernel, kargs, ncta, ntid) ==
    IF \E i \in 1..Len(kargs) : ~IsCudaNdarray(kargs[i])
    THEN [err |-> "", heap |-> heap, geom |-> <<ncta, ntid>>, oob |-> TRUE]
    ELSE [err |-> "", geom |-> <<ncta, ntid>>] @@
         Kernel(kernel.op, heap, SubSeq(kargs, 1, Len(kargs) - 1), kargs[Len(kargs)],
                LeadExtent(kargs[Len(kargs)]), ncta, ntid)

\* lines 389-395 of _launch_kernel: nt is what _apply_autotuning returned
LaunchTuned(heap, kernel, nelem, kargs, nt) ==
    IF ~nt.ok
    THEN [err |-> "Exception: insufficient resources to run kernel", heap |-> heap,
          geom |-> <<0, 0>>, oob |-> FALSE]
    ELSE LaunchConfigured(heap, kernel, kargs, LaunchBlocks(nelem, nt.val), nt.val)

\* CUDAGenerializedUFunc._launch_kernel(kernel, nelem, stream, args)
LaunchKernel(self, env, heap, kernel, nelem, kargs) ==
    LaunchTuned(heap, kernel, nelem, kargs, LaunchThreads(self, env))

\* line 380 with out=None: copy_to_host makes the host array it returns
GenHostCopy(host, log, n, run) ==
    Outcome("", host.arr, host.heap, log, n, run.geom, run.oob)

\* lines 379-383: post execution
GenLaunched(kws, need_cuda_conv, retval, heap, log, n, run) ==
    IF run.err # "" THEN Raise(run.err, heap, log)
    ELSE IF need_cuda_conv /\ kws.has_out
    THEN Outcome("", kws.out, CopyToHost(run.heap, retval, kws.out),
                 log \o <<"launch", "copy_to_host">>, n, run.geom, run.oob)
    ELSE IF need_cuda_conv
    THEN GenHostCopy(NewArray(run.heap, "host", retval.dtype, retval.shape,
                              Read(run.heap, retval)),
                     log \o <<"launch", "copy_to_host">>, n, run)
    ELSE Outcome("", IF kws.has_out THEN kws.out ELSE retval, run.heap,
                 log \o <<"launch">>, n, run.geom, run.oob)

\* the reshape of lines 366-367 and 371-372: p as an array of lead rows
LoopView(schedule, p) ==
    IF Len(schedule.loopdims) = 1 THEN p
    ELSE Reshape(p, <<IF schedule.loopdims = <<>> THEN 1 ELSE schedule.loopn>>)

\* that reshape is possible
LoopFits(schedule, p) ==
    \/ Len(schedule.loopdims) = 1
    \/ Size(p) = (IF schedule.loopdims = <<>> THEN 1 ELSE schedule.loopn)

\* lines 364-376: the assertion on the loop count, then the launch
GenExecute(self, env, kws, need_cuda_conv, schedule, entry, params, rv, log) ==
    IF ~(schedule.loopn > 0)
    THEN Raise("AssertionError: zero looping dimension", rv.heap, log)
    ELSE IF \E i \in 1..Len(params) : ~LoopFits(schedule, params[i])
    THEN Raise("ValueError: total size of new array must be unchanged", rv.heap, log)
    ELSE GenLaunched(kws, need_cuda_conv, rv.arr, rv.heap, log, schedule.loopn,
                     LaunchKernel(self, env, rv.heap, entry.kernel, schedule.loopn,
                                  [i \in 1..(Len(params) + 1) |->
                                      LoopView(schedule,
                                               IF i <= Len(params) THEN params[i]
                                               ELSE rv.arr)]))

\* lines 357-361: allocate output
GenAllocate(self, env, kws, need_cuda_conv, schedule, entry, params, log) ==
    IF need_cuda_conv \/ ~kws.has_out
    THEN GenExecute(self, env, kws, need_cuda_conv, schedule, entry, params.arrs,
                    DeviceArray(params.heap, schedule.output_shapes[1], entry.retty),
                    log \o <<"device_array">>)
    ELSE GenExecute(self, env, kws, need_cuda_conv, schedule, entry, params.arrs,
                    [heap |-> params.heap, arr |-> kws.out], log)

\* lines 341-353: find kernel, check output, prepare inputs
GenScheduled(self, env, kws, need_cuda_conv, inputs, schedule, idtypes) ==
    IF ~schedule.ok
    THEN Raise("ValueError: schedule: loop dimensions do not broadcast",
               inputs.heap, <<>>)
    ELSE IF idtypes \notin DOMAIN self.kernelmap THEN Raise("KeyError", inputs.heap, <<>>)
    ELSE IF kws.has_out /\ schedule.output_shapes[1] # kws.out.shape
    THEN Raise("ValueError: output shape mismatch", inputs.heap, <<>>)
    ELSE IF need_cuda_conv
    THEN GenAllocate(self, env, kws, need_cuda_conv, schedule, self.kernelmap[idtypes],
                     MapArrays(ToDevice, inputs.heap, inputs.arrs),
                     Repeat("to_device", Len(inputs.arrs)))
    ELSE GenAllocate(self, env, kws, need_cuda_conv, schedule, self.kernelmap[idtypes],
                     inputs, <<>>)

\* lines 337-341: inputs is bound
GenInputs(self, env, kws, need_cuda_conv, inputs) ==
    GenScheduled(self, env, kws, need_cuda_conv, inputs,
                 Schedule(self.engine, Shapes(inputs.arrs)), Dtypes(inputs.arrs))

\* CUDAGenerializedUFunc.__call__(*args, **kws)
GenCall(self, env, heap, args, kws) ==
    IF (\E i \in 1..Len(args) : IsCudaNdarray(args[i]))
       # (\A i \in 1..Len(args) : IsCudaNdarray(args[i]))
    THEN Raise("TypeError: if device array is used, all arguments must be device array",
               heap, <<>>)
    ELSE IF \E i \in 1..Len(args) : IsCudaNdarray(args[i])
    THEN GenInputs(self, env, kws, FALSE, [heap |-> heap, arrs |-> args])
    ELSE GenInputs(self, env, kws, TRUE, MapArrays(NpArray, heap, args))

----------------------------------------------------------------------------
(* The arrays a caller may pass, and the heap that holds them *)

\* descriptor i describes the array kept in buffer i
Pool ==
    LET M == MaxLen
        D(res, dtype, shape, strides) ==
            [res |-> res, dtype |-> dtype, shape |-> shape, strides |-> strides]
    IN << D("host",   "f32", <<M>>,       <<1>>),        \*  1
          D("host",   "f32", <<1>>,       <<1>>),        \*  2
          D("host",   "i32", <<M>>,       <<1>>),        \*  3
          D("host",   "f32", <<M, 1>>,    <<1, 1>>),     \*  4
          D("host",   "f32", <<1, M>>,    <<M, 1>>),     \*  5
          D("host",   "f32", <<M, M>>,    <<M, 1>>),     \*  6
          D("host",   "f32", <<M, M>>,    <<1, M>>),     \*  7  transposed
          D("device", "f32", <<M>>,       <<1>>),        \*  8
          D("device", "f32", <<1>>,       <<1>>),        \*  9
          D("device", "i32", <<M>>,       <<1>>),        \* 10
          D("device", "f32", <<1>>,       <<0>>),        \* 11  zero stride
          D("device", "f32", <<1, M>>,    <<M, 1>>),     \* 12
          D("scalar", "f32", <<>>,        <<>>),         \* 13  numpy scalar
          D("host",   "f32", <<0>>,       <<1>>),        \* 14  empty
          D("host",   "f32", <<1, 1, M>>, <<M, M, 1>>),  \* 15  (i,j) = (1,M)
          D("host",   "f32", <<1, M, 1>>, <<M, 1, 1>>),  \* 16  (j,k) = (M,1)
          D("device", "f32", <<1, 1, M>>, <<M, M, 1>>),  \* 17
          D("device", "f32", <<1, M, 1>>, <<M, 1, 1>>),  \* 18
          D("host",   "f32", <<1, 1, 1>>, <<1, 1, 1>>),  \* 19  (i,k) = (1,1)
          D("device", "f32", <<1, 1, 1>>, <<1, 1, 1>>) >> \* 20

\* pooled array i
Arr(i) ==
    [res |-> Pool[i].res, dtype |-> Pool[i].dtype, shape |-> Pool[i].shape,
     strides |-> Pool[i].strides, buf |-> i, off |-> 0]

\* buffer i holds the elements of pooled array i
InitHeap ==
    [i \in 1..Len(Pool) |->
        [k \in 1..(IF 0 \in Range(Pool[i].strides) THEN 1 ELSE Prod(Pool[i].shape))
            |-> i + k]]

UFuncArgs == 1..13
UFuncOuts == {1, 2, 6, 7, 8, 9}
GUFuncArgs == 15..18
GUFuncOuts == {19, 20}
GenArgs == {1, 2, 3, 5, 6, 8, 9, 10, 12, 13, 14}
GenOuts == {1, 2, 6, 8, 9}

\* the keyword arguments of a call: an unknown keyword, out=, or neither
Kws(outs) ==
    {[unknown |-> FALSE, has_out |-> FALSE, out |-> NoArray],
     [unknown |-> TRUE, has_out |-> FALSE, out |-> NoArray]}
    \cup {[unknown |-> FALSE, has_out |-> TRUE, out |-> Arr(o)] : o \in outs}

\* what the kernel handle answers during a call: the device's
\* MAX_THREADS_PER_BLOCK, whether func.autotune exists, and atune.best(), a
\* block size the device can run, or 0
Envs ==
    {[hw |-> h, has_autotune |-> FALSE, best |-> 0] : h \in 1..MaxHW}
    \cup UNION {{[hw |-> h, has_autotune |-> TRUE, best |-> b] : b \in 0..h} :
                   h \in 1..MaxHW}

\* types_to_retty_kernels: input dtypes -> (result dtype, kernel)
Table(op) ==
    [k \in {<<"f32", "f32">>} |-> [retty |-> k[1], kernel |-> [op |-> op]]]

\* CudaUFuncDispatcher(types_to_retty_kernels)
UFuncDispatcher(op) == [cls |-> "CudaUFuncDispatcher", functions |-> Table(op)]

\* the dispatchers as their __init__ leaves them
Dispatchers ==
    { UFuncDispatcher("add"),
      [cls |-> "CudaGUFuncDispatcher", functions |-> Table("matmul"),
       inputsig |-> <<<<"i", "j">>, <<"j", "k">>>>, outputsig |-> <<"i", "k">>],
      [cls |-> "CUDAGenerializedUFunc", kernelmap |-> Table("add"),
       engine |-> [nout |-> 1], max_blocksize |-> 2^30] }

NoOp == [op |-> "none"]
NoReduce == [on |-> FALSE]

Init ==
    /\ disp \in Dispatchers
    /\ last = NoOp
    /\ pc = "idle"
    /\ rd = NoReduce

\* the max_blocksize setter (a plain attribute of CUDAGenerializedUFunc)
SetMaxBlocksize ==
    /\ pc = "idle"
    /\ \E blksz \in 1..MaxHW :
          disp' = IF disp.cls = "CUDAGenerializedUFunc"
                  THEN [disp EXCEPT !.max_blocksize = blksz]
                  ELSE ("__max_blocksize" :> blksz) @@ disp
    /\ UNCHANGED <<last, pc, rd>>

\* one call of a CudaUFuncDispatcher or CudaGUFuncDispatcher
CallUFunc ==
    /\ pc = "idle"
    /\ disp.cls # "CUDAGenerializedUFunc"
    /\ \E env \in Envs :
       \E a1, a2 \in (IF disp.cls = "CudaUFuncDispatcher" THEN UFuncArgs ELSE GUFuncArgs) :
       \E kws \in Kws(IF disp.cls = "CudaUFuncDispatcher" THEN UFuncOuts ELSE GUFuncOuts) :
          last' = [op |-> "call", env |-> env, args |-> <<Arr(a1), Arr(a2)>>, kws |-> kws,
                   res |-> UFuncCall(disp, env, InitHeap, <<Arr(a1), Arr(a2)>>, kws)]
    /\ pc' = "done"
    /\ UNCHANGED <<disp, rd>>

\* one call of a CUDAGenerializedUFunc
CallGeneralized ==
    /\ pc = "idle"
    /\ disp.cls = "CUDAGenerializedUFunc"
    /\ \E env \in Envs : \E a1, a2 \in GenArgs : \E kws \in Kws(GenOuts) :
          last' = [op |-> "call", env |-> env, args |-> <<Arr(a1), Arr(a2)>>, kws |-> kws,
                   res |-> GenCall(disp, env, InitHeap, <<Arr(a1), Arr(a2)>>, kws)]
    /\ pc' = "done"
    /\ UNCHANGED <<disp, rd>>

\* the planner applied to an element count and a thread ceiling
Plan ==
    /\ pc = "idle"
    /\ \E n \in 1..MaxPlan, max_thread \in 1..MaxPlan :
          last' = [op |-> "plan", n |-> n, max_thread |-> max_thread,
                   dims |-> DetermineDimensions(n, max_thread)]
    /\ pc' = "done"
    /\ UNCHANGED <<disp, rd>>

\* the caller takes the outcome
Return ==
    /\ pc = "done"
    /\ pc' = "idle"
    /\ last' = NoOp
    /\ UNCHANGED <<disp, rd>>

\* the shapes _determine_output_shape is applied to
ShapePool == {<<3, 4>>, <<4, 5>>, <<5, 5>>, <<2, 3, 4>>, <<2, 4, 5>>, <<2, 5, 5>>}

\* _determine_output_shape applied to the shapes of two arrays
SolveOutputShape ==
    /\ pc = "idle"
    /\ disp.cls = "CudaGUFuncDispatcher"
    /\ \E s1, s2 \in ShapePool :
          last' = [op |-> "shape", shapes |-> <<s1, s2>>,
                   res |-> DetermineOutputShape(disp, <<s1, s2>>)]
    /\ pc' = "done"
    /\ UNCHANGED <<disp, rd>>

Next ==
    \/ SetMaxBlocksize
    \/ CallUFunc
    \/ CallGeneralized
    \/ Plan
    \/ SolveOutputShape
    \/ Return

Spec == Init /\ [][Next]_vars

----------------------------------------------------------------------------
(* CudaUFuncDispatcher.reduce and __reduce *)

\* the element values of the arrays reduce() is run on
Vals == {0, 1, 2}

\* the kernels reduce() is run with
KernelOps == {"add", "first", "sub"}

\* DeviceNDArray.split(section): consecutive views of section elements that
\* share the array's storage; the last one may be shorter
Split(mem, section) ==
    [i \in 1..CeilDiv(mem.shape[1], section) |->
        [mem EXCEPT !.off = mem.off + (i - 1) * section,
                    !.shape = <<Min(section, mem.shape[1] - (i - 1) * section)>>]]

\* an accumulator that keeps nothing
RetainNothing(gpu_mems, view) == gpu_mems

\* gpu_mems.append(view): "prevent freeing during async mode"
Retain(gpu_mems, view) == Append(gpu_mems, view)

\* a kernel launch queued on the stream
Launch(kernel, ins, call) ==
    [kind |-> "launch", op |-> kernel.op, ins |-> ins, out |-> call.ret, n |-> call.n,
     geom |-> call.geom, log |-> call.log]

\* out.copy_to_host(buf, stream=stream) queued on the stream
CopyOut(out) ==
    [kind |-> "copy_to_host", op |-> "none", ins |-> <<out>>, out |-> NoArray,
     n |-> 1, geom |-> <<0, 0>>, log |-> <<"copy_to_host">>]

\* the views an operation queued on the stream reads or writes
Operands(item) == Range(item.ins) \cup ({item.out} \ {NoArray})

\* a __reduce activation waiting for the activation it called
Frame(mem, cut, kind) == [mem |-> mem, a |-> cut[1], b |-> cut[2], kind |-> kind]

\* the views some Python reference still reaches: the accumulator, the locals
\* of the waiting __reduce activations, the argument or return value in
\* transit, and the locals of reduce()
Live(r) ==
    (Range(r.gpu_mems)
       \cup UNION {{r.frames[i].mem, r.frames[i].a, r.frames[i].b} :
                      i \in 1..Len(r.frames)}
       \cup {r.mem, r.cur, r.retv, r.out}) \ {NoArray}

\* the views no reference reaches any more: their device memory is released
Freed == IF rd.on THEN rd.views \ Live(rd) ELSE {}

\* a call self(a, b, stream=stream) that is given no out
ReduceCallFresh(a, b) ==
    UFuncCall(disp, rd.env, rd.heap, <<a, b>>,
              [unknown |-> FALSE, has_out |-> FALSE, out |-> NoArray])

\* the call self(a, b, out=a, stream=stream) issued by __reduce
ReduceCall(a, b) ==
    UFuncCall(disp, rd.env, rd.heap, <<a, b>>,
              [unknown |-> FALSE, has_out |-> TRUE, out |-> a])

\* the kernel the call selects
ReduceKernel(a, b) == GetFunctionByDtype(disp, <<a.dtype, b.dtype>>).cuda_func

\* reduce() is left: by an exception or by a return
Leave(arg, data, env, err, ret) ==
    /\ last' = [op |-> "reduce", arg |-> arg, data |-> data, env |-> env,
                err |-> err, ret |-> ret]
    /\ pc' = "done"

\* the exception of a call leaves reduce(): every local is dropped
Unwind(err) ==
    /\ Leave(rd.arg, rd.data, rd.env, err, 0)
    /\ rd' = [rd EXCEPT !.frames = <<>>, !.gpu_mems = <<>>, !.cur = NoArray,
                        !.retv = NoArray, !.out = NoArray, !.mem = NoArray]

\* the 1-D float32 array of n elements reduce() is given
ReduceArg(res, n) ==
    [res |-> res, dtype |-> "f32", shape |-> <<n>>, strides |-> <<1>>, buf |-> 1,
     off |-> 0]

\* lines 241-246: mem is bound and __reduce is called on it
ReduceStaged(arg, data, env, staged) ==
    /\ rd' = [on |-> TRUE, arg |-> arg, data |-> data, env |-> env,
              heap |-> staged.heap, mem |-> staged.arr, cur |-> staged.arr,
              frames |-> <<>>, gpu_mems |-> <<>>, stream |-> <<>>, views |-> {},
              out |-> NoArray, retv |-> NoArray, buf |-> 1]
    /\ pc' = "rd_enter"
    /\ last' = last

\* lines 225-246: the checks of reduce(), the staging of arg, and the call of
\* __reduce on the staged buffer
ReduceBegin ==
    /\ pc = "idle"
    /\ disp.cls = "CudaUFuncDispatcher"
    /\ \E res \in {"host", "device"}, env \in Envs, n \in 0..MaxN :
       \E data \in [1..n -> Vals] :
          IF \E k \in DOMAIN disp.functions : Len(k) # 2
          THEN /\ Leave(ReduceArg(res, n), data, env,
                        "AssertionError: must be a binary ufunc", 0)
               /\ rd' = NoReduce
          ELSE IF n = 0
          THEN /\ Leave(ReduceArg(res, n), data, env,
                        "TypeError: Reduction on an empty array.", 0)
               /\ rd' = NoReduce
          ELSE IF n = 1
          THEN /\ Leave(ReduceArg(res, n), data, env, "", data[1])
               /\ rd' = NoReduce
          ELSE IF res = "device"
          THEN ReduceStaged(ReduceArg(res, n), data, env,
                            [heap |-> <<data>>, arr |-> ReduceArg(res, n)])
          ELSE ReduceStaged(ReduceArg(res, n), data, env,
                            ToDevice(<<data>>, ReduceArg(res, n)))
    /\ UNCHANGED disp

\* lines 257-262: the odd branch up to the recursive call on fatcut
EnterOdd(mem, cut) ==
    /\ rd' = [rd EXCEPT !.gpu_mems = Retain(Retain(@, cut[1]), cut[2]),
                        !.views = @ \cup {cut[1], cut[2]},
                        !.frames = Append(@, Frame(mem, cut, "odd")),
                        !.cur = cut[1]]
    /\ pc' = "rd_enter"
    /\ last' = last

\* lines 266-275: the even branch; call is what self(left, right, out=left)
\* did
EnterEven(mem, cut, call) ==
    IF call.err # "" THEN Unwind(call.err)
    ELSE IF mem.shape[1] \div 2 > 1
    THEN /\ rd' = [rd EXCEPT !.gpu_mems = Retain(Retain(@, cut[1]), cut[2]),
                             !.views = @ \cup {cut[1], cut[2]},
                             !.frames = Append(@, Frame(mem, cut, "even")),
                             !.stream = Append(@, Launch(ReduceKernel(cut[1], cut[2]),
                                                         cut, call)),
                             !.cur = cut[1]]
         /\ pc' = "rd_enter"
         /\ last' = last
    ELSE /\ rd' = [rd EXCEPT !.gpu_mems = Retain(Retain(@, cut[1]), cut[2]),
                             !.views = @ \cup {cut[1], cut[2]},
                             !.stream = Append(@, Launch(ReduceKernel(cut[1], cut[2]),
                                                         cut, call)),
                             !.cur = NoArray,
                             !.retv = cut[1]]
         /\ pc' = "rd_return"
         /\ last' = last

\* the even branch once mem is split
EnterSplit(mem, cut) == EnterEven(mem, cut, ReduceCall(cut[1], cut[2]))

\* lines 254-275: one activation of __reduce, from its entry to the recursive
\* call (a frame is pushed) or to "return left"
ReduceEnter ==
    /\ pc = "rd_enter"
    /\ IF rd.cur.shape[1] % 2 # 0
       THEN EnterOdd(rd.cur, Split(rd.cur, rd.cur.shape[1] - 1))
       ELSE EnterSplit(rd.cur, Split(rd.cur, rd.cur.shape[1] \div 2))
    /\ UNCHANGED disp

\* an odd branch that returns the result of fatcut and forgets thincut
ReturnOddDropped(f, out, call) ==
    /\ rd' = [rd EXCEPT !.frames = SubSeq(@, 1, Len(@) - 1),
                        !.gpu_mems = Retain(@, out)]
    /\ pc' = "rd_return"
    /\ last' = last

\* lines 263-264: out is retained and combined with the singleton; call is
\* what self(out, thincut, out=out) did
ReturnOdd(f, out, call) ==
    IF call.err # "" THEN Unwind(call.err)
    ELSE /\ rd' = [rd EXCEPT !.frames = SubSeq(@, 1, Len(@) - 1),
                             !.gpu_mems = Retain(@, out),
                             !.stream = Append(@, Launch(ReduceKernel(out, f.b),
                                                         <<out, f.b>>, call)),
                             !.retv = call.ret]
         /\ pc' = "rd_return"
         /\ last' = last

\* a value is returned: to reduce() (line 246), through an even activation
\* (line 273), or into an odd activation, which combines it with its
\* singleton (lines 262-264)
ReduceReturn ==
    /\ pc = "rd_return"
    /\ IF rd.frames = <<>>
       THEN /\ rd' = [rd EXCEPT !.out = rd.retv, !.retv = NoArray]
            /\ pc' = "rd_copy"
            /\ last' = last
       ELSE IF rd.frames[Len(rd.frames)].kind = "even"
       THEN /\ rd' = [rd EXCEPT !.frames = SubSeq(@, 1, Len(@) - 1)]
            /\ pc' = "rd_return"
            /\ last' = last
       ELSE ReturnOdd(rd.frames[Len(rd.frames)], rd.retv,
                      ReduceCall(rd.retv, rd.frames[Len(rd.frames)].b))
    /\ UNCHANGED disp

\* lines 248-249: the result element is copied to a one-element host buffer
ReduceCopy ==
    /\ pc = "rd_copy"
    /\ rd' = [rd EXCEPT !.stream = Append(@, CopyOut(rd.out))]
    /\ pc' = "rd_sync"
    /\ UNCHANGED <<disp, last>>

\* the device runs the oldest operation queued on the stream
StreamExec ==
    /\ pc \in {"rd_enter", "rd_return", "rd_copy", "rd_sync"}
    /\ rd.stream # <<>>
    /\ rd' = [rd EXCEPT
                !.stream = Tail(@),
                !.heap = IF Head(rd.stream).kind = "launch"
                         THEN Kernel(Head(rd.stream).op, @, Head(rd.stream).ins,
                                     Head(rd.stream).out, Head(rd.stream).n,
                                     Head(rd.stream).geom[1],
                                     Head(rd.stream).geom[2]).heap
                         ELSE @,
                !.buf = IF Head(rd.stream).kind = "copy_to_host"
                        THEN Read(rd.heap, Head(rd.stream).ins[1])[1]
                        ELSE @]
    /\ UNCHANGED <<disp, last, pc>>

\* the exit of "with stream.auto_synchronize()": waits for the stream
ReduceSync ==
    /\ pc = "rd_sync"
    /\ rd.stream = <<>>
    /\ pc' = "rd_exit"
    /\ UNCHANGED <<disp, last, rd>>

\* line 251: return buf[0]; the locals of reduce(), gpu_mems among them, go
ReduceFinish ==
    /\ pc = "rd_exit"
    /\ Leave(rd.arg, rd.data, rd.env, "", rd.buf)
    /\ rd' = [rd EXCEPT !.gpu_mems = <<>>, !.out = NoArray, !.mem = NoArray]
    /\ UNCHANGED disp

\* the caller takes the outcome of reduce()
ReduceReturned ==
    /\ pc = "done"
    /\ pc' = "idle"
    /\ last' = NoOp
    /\ rd' = NoReduce
    /\ UNCHANGED disp

InitReduce ==
    /\ disp \in {UFuncDispatcher(op) : op \in KernelOps}
    /\ last = NoOp
    /\ pc = "idle"
    /\ rd = NoReduce

NextReduce ==
    \/ ReduceBegin
    \/ ReduceEnter
    \/ ReduceReturn
    \/ ReduceCopy
    \/ StreamExec
    \/ ReduceSync
    \/ ReduceFinish
    \/ ReduceReturned

SpecReduce == InitReduce /\ [][NextReduce]_vars

----------------------------------------------------------------------------
(* Properties of dispatcher calls (specification Spec) *)

IsCall == last.op = "call"

HasDeviceArg == \E i \in 1..Len(last.args) : IsCudaNdarray(last.args[i])
HasHostArg == \E i \in 1..Len(last.args) : ~IsCudaNdarray(last.args[i])

\* the call issued some operation of the given kinds
Issued(kinds) == \E i \in 1..Len(last.res.log) : last.res.log[i] \in kinds

\* the kernel table of a dispatcher
KernelTable(d) == IF d.cls = "CUDAGenerializedUFunc" THEN d.kernelmap ELSE d.functions

\* the errors that tell a type or an option is wrong
TypeClassErrors ==
    {"TypeError: if device array is used, all arguments must be device array",
     "TypeError: output array must be a device array",
     "TypeError: output array must not be a device array",
     "TypeError: Input dtypes not supported by ufunc",
     "TypeError: not enough arguments for format string",
     "AssertionError: Unknown keyword args"}

\* C1: every dispatcher call whose arguments hold at least one device array
\* and at least one host array (or host scalar) fails with a type-class error
\* and never launches a kernel.
C1_ResidencyExclusivity ==
    (IsCall /\ HasDeviceArg /\ HasHostArg)
        => /\ last.res.err \in TypeClassErrors
           /\ ~Issued({"launch"})

\* C3: for element_count >= 1 and thread_ceiling >= 1 the planner returns
\* (block_count, threads_per_block) with block_count * threads_per_block >=
\* element_count, threads_per_block <= thread_ceiling, threads_per_block =
\* min(thread_ceiling, element_count) and block_count =
\* ceil(element_count / thread_ceiling), the least b with
\* b * thread_ceiling >= element_count.
C3_PlannerGeometry ==
    last.op = "plan"
        => /\ last.dims[1] * last.dims[2] >= last.n
           /\ last.dims[2] <= last.max_thread
           /\ last.dims[2] = Min(last.max_thread, last.n)
           /\ last.dims[1] * last.max_thread >= last.n
           /\ (last.dims[1] - 1) * last.max_thread < last.n

\* the planner has been applied where the ceiling does not divide the count
C3_Witness ==
    /\ last.op = "plan"
    /\ last.n = 5
    /\ last.max_thread = 2
    /\ last.dims = <<3, 2>>

\* the configured max_blocksize of a dispatcher
ConfiguredMax(d) ==
    IF d.cls = "CUDAGenerializedUFunc" THEN d.max_blocksize ELSE MaxBlocksize(d)

\* min(hardware max, configured max_blocksize, autotuned value)
Ceiling(d, env) ==
    Min(Min(env.hw, ConfiguredMax(d)), IF env.has_autotune THEN env.best ELSE env.hw)

\* C4: on every launch, for every hardware maximum, configured max_blocksize
\* and autotuned value best() > 0, threads_per_block <= min(hardware max,
\* configured max_blocksize, autotuned value) and block_count *
\* threads_per_block >= element_count.
C4_ThreadCeiling ==
    (IsCall /\ Issued({"launch"}) /\ (last.env.has_autotune => last.env.best > 0))
        => /\ last.res.geom[2] <= Ceiling(disp, last.env)
           /\ last.res.geom[1] * last.res.geom[2] >= last.res.n

\* C5: a call that ends in an error has issued no device work: no transfer,
\* no device allocation, no launch.
C5_ValidationFirst ==
    (IsCall /\ last.res.err # "") => last.res.log = <<>>

\* the error of a lookup miss: the TypeError of _get_function_by_dtype, the
\* KeyError of kernelmap[idtypes] in CUDAGenerializedUFunc
LookupMiss(d) ==
    IF d.cls = "CUDAGenerializedUFunc" THEN "KeyError"
    ELSE "TypeError: Input dtypes not supported by ufunc"

\* the dtype tuple of the call is no key of the kernel table
Unsupported == IsCall /\ Dtypes(last.args) \notin DOMAIN KernelTable(disp)

\* the call passes the checks its dispatcher makes before the lookup
ReachesLookup ==
    IF disp.cls = "CUDAGenerializedUFunc"
    THEN /\ HasDeviceArg # HasHostArg
         /\ BroadcastShape(last.args[1].shape, last.args[2].shape).ok
    ELSE ~last.kws.unknown

\* no output buffer was allocated and no kernel launched
NoOutputNoLaunch ==
    ~Issued({"np.empty", "np.zeros", "device_array", "device_array_like", "launch"})

\* the table is the one the dispatcher was constructed with
TableUnchanged ==
    KernelTable(disp) = Table(IF disp.cls = "CudaGUFuncDispatcher" THEN "matmul"
                              ELSE "add")

\* C6 as stated: every call whose dtype tuple is not a key of the kernel
\* table fails with the unsupported-type error, allocates no output buffer,
\* launches no kernel and leaves the table unchanged.
C6_UnsupportedAlways ==
    Unsupported
        => /\ last.res.err = LookupMiss(disp)
           /\ NoOutputNoLaunch
           /\ TableUnchanged

\* C6, amended: every call whose dtype tuple is not a key of the kernel table
\* fails, allocates no output buffer, launches no kernel and leaves the table
\* unchanged; the error is that of the lookup miss when the call passes the
\* checks made before the lookup (known keywords; in CUDAGenerializedUFunc,
\* one residency and shapes the engine schedules).
C6_UnsupportedDtype ==
    Unsupported
        => /\ last.res.err # ""
           /\ ReachesLookup => last.res.err = LookupMiss(disp)
           /\ NoOutputNoLaunch
           /\ last.res.ret = NoArray
           /\ TableUnchanged

\* a (float32, float32) dispatcher has been called with two integer arrays
C6_Witness ==
    /\ Unsupported
    /\ ReachesLookup
    /\ disp.cls = "CudaUFuncDispatcher"
    /\ Dtypes(last.args) = <<"i32", "i32">>
    /\ last.res.err = "TypeError: Input dtypes not supported by ufunc"

\* the dispatcher applied once more: the same call without out=
CallWithoutOut ==
    IF disp.cls = "CUDAGenerializedUFunc"
    THEN GenCall(disp, last.env, InitHeap, last.args,
                 [unknown |-> FALSE, has_out |-> FALSE, out |-> NoArray])
    ELSE UFuncCall(disp, last.env, InitHeap, last.args,
                   [unknown |-> FALSE, has_out |-> FALSE, out |-> NoArray])

\* the call was given an output buffer of exactly the expected shape and of
\* the residency of its arguments, and succeeded inside its arrays
ExactOut ==
    /\ IsCall
    /\ last.kws.has_out
    /\ last.res.err = ""
    /\ ~last.res.oob
    /\ IsCudaNdarray(last.kws.out) = HasDeviceArg
    /\ CallWithoutOut.err = ""
    /\ ~CallWithoutOut.oob
    /\ last.kws.out.shape = CallWithoutOut.ret.shape

\* C7: a successful call with a caller-supplied output buffer of exactly the
\* expected shape and matching residency returns that same buffer, and its
\* contents equal the result of the same call made without out=.
C7_OutIdentity ==
    ExactOut
        => /\ last.res.ret = last.kws.out
           /\ Read(last.res.heap, last.res.ret)
                = Read(CallWithoutOut.heap, CallWithoutOut.ret)

\* C8: with signature (i,j),(j,k)->(i,k), input shapes (3,4) and (4,5)
\* resolve the output shape (3,5), and input shapes (3,4) and (5,5) fail with
\* a dimension-mismatch error naming symbol j.
C8_SymbolConsistency ==
    /\ (last.op = "shape" /\ last.shapes = <<<<3, 4>>, <<4, 5>>>>)
           => last.res.err = "" /\ last.res.shape = <<3, 5>>
    /\ (last.op = "shape" /\ last.shapes = <<<<3, 4>>, <<5, 5>>>>)
           => last.res.err = "ValueError: dimension mismatch" /\ last.res.sym = "j"

\* the arguments as lines 111-116 leave them: 0-d ones as one zero-stride element
Promoted ==
    [i \in 1..Len(last.args) |->
        IF last.args[i].shape = <<>>
        THEN [last.args[i] EXCEPT !.shape = <<1>>, !.strides = <<0>>]
        ELSE last.args[i]]

\* the arguments with non-zero stride
Strided == {i \in 1..Len(last.args) : Promoted[i].strides[1] # 0}

\* a device-path call of a CudaUFuncDispatcher whose arguments are 1-D and
\* pass the length check
DeviceLengthsAgree ==
    /\ IsCall
    /\ disp.cls = "CudaUFuncDispatcher"
    /\ HasDeviceArg
    /\ ~last.kws.unknown
    /\ Dtypes(last.args) \in DOMAIN disp.functions
    /\ ThreadCeiling(disp, last.env).ok
    /\ last.kws.has_out => IsCudaNdarray(last.kws.out)
    /\ \A i \in 1..Len(last.args) : NDim(Promoted[i]) = 1
    /\ \A i, j \in Strided : Promoted[i].shape[1] = Promoted[j].shape[1]

\* the common length of the arguments with non-zero stride, 1 when there is none
CommonLength ==
    IF Strided = {} THEN 1 ELSE Promoted[CHOOSE i \in Strided : TRUE].shape[1]

\* C9: on the device path of CudaUFuncDispatcher.__call__, for 1-D arguments
\* that pass the length check, the element count of the launch geometry, of
\* the allocated output and of the kernel is the common length of the
\* arguments with non-zero stride, whatever their order, and 1 when all
\* arguments are zero-stride.
C9_ElementCount ==
    DeviceLengthsAgree
        => /\ last.res.err = ""
           /\ last.res.n = CommonLength
           /\ ~last.kws.has_out => last.res.ret.shape = <<CommonLength>>
           /\ last.res.geom = DetermineDimensions(CommonLength,
                                                  ThreadCeiling(disp, last.env).val)

----------------------------------------------------------------------------
(* Properties of reduce() (specification SpecReduce) *)

\* the values the kernels meet on arrays of Vals
Carrier == 0..(2 * MaxN)

AssociativeOps ==
    {op \in KernelOps :
        \A x, y, z \in Carrier :
            ApplyOp(op, ApplyOp(op, x, y), z) = ApplyOp(op, x, ApplyOp(op, y, z))}

CommutativeOps ==
    {op \in KernelOps : \A x, y \in Carrier : ApplyOp(op, x, y) = ApplyOp(op, y, x)}

RECURSIVE Fold(_, _, _)
\* the left-to-right fold ((a[1] op a[2]) op ...) op a[k]
Fold(op, a, k) == IF k = 1 THEN a[1] ELSE ApplyOp(op, Fold(op, a, k - 1), a[k])

\* the op of the kernel a dispatcher reduces with
ReduceOp == disp.functions[<<"f32", "f32">>].kernel.op

\* reduce() has returned a value for an array of length N >= 1
Reduced == last.op = "reduce" /\ last.err = "" /\ Len(last.data) >= 1

\* C2 as stated: for every associative kernel op and every 1-D array of
\* length N >= 1, reduce returns the left-to-right fold of the array.
C2_FoldOfAssociative ==
    (Reduced /\ ReduceOp \in AssociativeOps)
        => last.ret = Fold(ReduceOp, last.data, Len(last.data))

\* C2, amended: for every associative and commutative kernel op and every
\* 1-D array of length N >= 1, reduce returns the left-to-right fold of the
\* array, whatever odd/even splits __reduce takes.
C2_ReduceIsFold ==
    (Reduced /\ ReduceOp \in AssociativeOps \cap CommutativeOps)
        => last.ret = Fold(ReduceOp, last.data, Len(last.data))

\* an add reduction of an array of four elements has returned their sum
C2_Witness ==
    /\ Reduced
    /\ ReduceOp = "add"
    /\ ReduceOp \in AssociativeOps \cap CommutativeOps
    /\ last.data = <<1, 2, 0, 2>>
    /\ last.ret = 5

\* reduce() is inside "with stream.auto_synchronize()"
InScope == pc \in {"rd_enter", "rd_return", "rd_copy", "rd_sync"}

\* the launches queued on the stream and not yet run
InFlight == {rd.stream[i] : i \in 1..Len(rd.stream)}

\* the views the launches in flight read or write
InFlightViews == UNION {Operands(item) : item \in InFlight}

\* every view made by __reduce, and every view a launch in flight uses, is in
\* gpu_mems or is the staged root buffer, and none of them is released
Retained ==
    InScope
        => /\ \A v \in rd.views \cup InFlightViews :
                 v = rd.mem \/ v \in Range(rd.gpu_mems)
           /\ Freed \cap (rd.views \cup InFlightViews) = {}

\* gpu_mems is only appended to while reduce() is in the scope
OnlyGrows ==
    (InScope /\ pc' \in {"rd_enter", "rd_return", "rd_copy", "rd_sync", "rd_exit"})
        => /\ Len(rd'.gpu_mems) >= Len(rd.gpu_mems)
           /\ SubSeq(rd'.gpu_mems, 1, Len(rd.gpu_mems)) = rd.gpu_mems

\* C10: during reduce on an array of length N >= 2, every view that is an
\* input or output of a launch issued by __reduce is held in gpu_mems or is
\* the staged root buffer from its creation until the synchronized scope has
\* completed, none is released while a launch using it may be in flight, and
\* gpu_mems only grows.
C10_Retention == []Retained /\ [][OnlyGrows]_vars

\* a launch is in flight whose operand no waiting activation and no local
\* refers to any more: only gpu_mems holds it
C10_Witness ==
    /\ InScope
    /\ \E v \in InFlightViews :
          /\ v \in Range(rd.gpu_mems)
          /\ v \notin Live([rd EXCEPT !.gpu_mems = <<>>])

\* the elementwise calls __reduce has issued that the stream has not run yet
IssuedCalls == {item \in InFlight : item.kind = "launch"}

\* view v is a sub-range of the staged device buffer
InStaged(v) ==
    /\ v # NoArray
    /\ v.res = "device"
    /\ v.buf = rd.mem.buf
    /\ v.strides = rd.mem.strides
    /\ rd.mem.off <= v.off
    /\ v.off + v.shape[1] <= rd.mem.off + rd.mem.shape[1]

\* view v is the prefix [0,1) of the staged device buffer
IsPrefix(v) == InStaged(v) /\ v.shape = <<1>> /\ v.off = rd.mem.off

\* the device buffers there are once arg is staged: the caller's array, and
\* the staged copy of a host array
StagedBuffers == IF rd.arg.res = "device" THEN 1 ELSE 2

\* an elementwise call of __reduce: two operands of equal length, computed
\* over their whole length into the first operand, which lies in the staged
\* buffer; the call transfers and allocates nothing
CallInPlace(item) ==
    /\ Len(item.ins) = 2
    /\ item.ins[1].shape = item.ins[2].shape
    /\ NDim(item.ins[1]) = 1
    /\ InStaged(item.ins[1])
    /\ InStaged(item.ins[2])
    /\ item.out = item.ins[1]
    /\ item.n = item.ins[1].shape[1]
    /\ item.log = <<"launch">>

\* reduce() has left the synchronized scope and is about to return buf[0]
ReduceCompleted == pc = "rd_exit"

\* reduce() has returned the value of an array of length N >= 2
ReducedTree == Reduced /\ Len(last.data) >= 2 /\ rd.on

\* C11: for every N >= 2, every elementwise call issued by __reduce has two
\* operands of equal length and writes into a sub-range of the single staged
\* device buffer, no device buffer is allocated during the recursion, the
\* view __reduce returns is the one-element prefix of that buffer, on
\* completion element 0 of the buffer is the returned value, and a
\* device-resident array of the caller is the buffer that was written.
C11_InPlaceReduction ==
    /\ InScope
          => /\ \A item \in IssuedCalls : CallInPlace(item)
             /\ Len(rd.heap) = StagedBuffers
             /\ (rd.arg.res = "device") => rd.mem = rd.arg
    /\ (InScope /\ rd.retv # NoArray) => IsPrefix(rd.retv)
    /\ (InScope /\ rd.out # NoArray) => IsPrefix(rd.out)
    /\ ReduceCompleted
          => /\ IsPrefix(rd.out)
             /\ Len(rd.heap) = StagedBuffers
             /\ Read(rd.heap, rd.mem)[1] = rd.buf
    /\ ReducedTree
          => /\ Len(rd.heap) = StagedBuffers
             /\ rd.heap[StagedBuffers][1] = last.ret
             /\ (last.arg.res = "device") => Read(rd.heap, last.arg)[1] = last.ret
             /\ (last.arg.res = "host") => Read(rd.heap, last.arg) = last.data

\* an add reduction of a device-resident array of three elements has
\* returned: the caller's array now starts with the sum and no longer holds
\* the data it was given
C11_Witness ==
    /\ ReducedTree
    /\ ReduceOp = "add"
    /\ last.arg.res = "device"
    /\ last.data = <<1, 2, 2>>
    /\ last.ret = 5
    /\ Read(rd.heap, last.arg) = <<5, 2, 2>>
    /\ Read(rd.heap, last.arg) # last.data

====
